---- MODULE Spec2Model ----
(***************************************************************************)
(* A model of terraso_backend/apps/export: the depth interval resolver     *)
(* (depth_helpers.py), the Munsell to CIELAB converter with its lazily     *)
(* loaded lookup table, the soil_id cache and the fetch_soil_id assembler  *)
(* (fetch_data.py).                                                        *)
(*                                                                         *)
(* Encoding of Python values.  An optional value (a dict key that may be   *)
(* missing or hold None) is a sequence of length at most one: None is <<>> *)
(* and a present value x is <<x>>.  A call's outcome is a record           *)
(* [kind, val]: kind "return" with the returned value, or kind "raise"     *)
(* with the name of the exception that leaves the function.                *)
(***************************************************************************)
EXTENDS Integers, Sequences, FiniteSets, TLC

VARIABLES
    site,                \* the site dict handed to the resolver / assembler
    preset,              \* the preset argument of get_preset_intervals
    siteGiven,           \* whether get_preset_intervals is handed the site
    color,               \* the (hue, value, chroma) argument of munsell_to_lab
    op,                  \* the call that completed last ("none" at start)
    ret,                 \* its outcome
    csvFile,             \* environment: the rows of the Munsell CSV file, None if missing
    munsell_lab_table,   \* module global _munsell_lab_table
    opens,               \* number of open() calls on the CSV file so far
    soil_id_cache,       \* module global _soil_id_cache
    USE_SOIL_ID_CACHE,   \* module global _USE_SOIL_ID_CACHE
    queries,             \* variable_values of the soil-match queries executed
    pc,                  \* per thread: position inside _load_munsell_lab_table
    local,               \* per thread: its local variable `table`
    tret,                \* per thread: what its last call returned
    calls,               \* per thread: calls of the loader or converter started
    log                  \* history: the cache control calls made so far, in order

vars == <<site, preset, siteGiven, color, op, ret, csvFile, munsell_lab_table,
          opens, soil_id_cache, USE_SOIL_ID_CACHE, queries, pc, local, tret, calls,
          log>>

----------------------------------------------------------------------------
(* Python values *)

None == <<>>
Some(x) == <<x>>
Opt(S) == {None} \cup {Some(x) : x \in S}

Return(v) == [kind |-> "return", val |-> v]
Raise(e) == [kind |-> "raise", val |-> e]

\* `x or d` for an optional string: None and "" are falsy
OrStr(x, d) == IF x = None \/ x = Some("") THEN d ELSE x[1]

\* `x or 0` for an optional integer: None and 0 are falsy
OrZero(x) == IF x = None THEN 0 ELSE x[1]

\* the empty dict
EmptyDict == [k \in {} |-> k]

\* truthiness of an optional string (None and "" are falsy)
TruthyStr(x) == x # None /\ x # Some("")

\* truthiness of an optional number (None and 0 are falsy)
TruthyNum(x) == x # None /\ x # Some(0)

----------------------------------------------------------------------------
(* depth_helpers.py *)

PRESET_NRCS == "NRCS"
PRESET_BLM == "BLM"
PRESET_CUSTOM == "CUSTOM"
PRESET_NONE == "NONE"

\* apps/soil_id/models/project_soil_settings.py: the reference tables
NRCSIntervalDefaults ==
    << [depth_interval_start |-> 0, depth_interval_end |-> 5],
       [depth_interval_start |-> 5, depth_interval_end |-> 15],
       [depth_interval_start |-> 15, depth_interval_end |-> 30],
       [depth_interval_start |-> 30, depth_interval_end |-> 60],
       [depth_interval_start |-> 60, depth_interval_end |-> 100],
       [depth_interval_start |-> 100, depth_interval_end |-> 200] >>

BLMIntervalDefaults ==
    << [depth_interval_start |-> 0, depth_interval_end |-> 1],
       [depth_interval_start |-> 1, depth_interval_end |-> 10],
       [depth_interval_start |-> 10, depth_interval_end |-> 20],
       [depth_interval_start |-> 20, depth_interval_end |-> 50],
       [depth_interval_start |-> 50, depth_interval_end |-> 70] >>

\* str(n) for the non-negative integers of the reference tables
RECURSIVE IntStr(_)
IntStr(n) ==
    LET digit == <<"0", "1", "2", "3", "4", "5", "6", "7", "8", "9">>
    IN  IF n < 10 THEN digit[n + 1] ELSE IntStr(n \div 10) \o digit[(n % 10) + 1]

_build_depth_intervals(interval_defaults) ==
    [i \in 1..Len(interval_defaults) |->
        LET d == interval_defaults[i]
        IN  [label |-> IntStr(d.depth_interval_start) \o "-"
                        \o IntStr(d.depth_interval_end) \o " cm",
             depthInterval |-> [start |-> Some(d.depth_interval_start),
                                end |-> Some(d.depth_interval_end)]]]

NRCS_DEPTH_INTERVALS == _build_depth_intervals(NRCSIntervalDefaults)
BLM_DEPTH_INTERVALS == _build_depth_intervals(BLMIntervalDefaults)

\* (start, end) of an interval or measurement dict
depth_key(interval) ==
    <<interval.depthInterval.start, interval.depthInterval.end>>

\* get_effective_preset with the priority reversed: a site-level preset wins
get_effective_preset_site_first(s) ==
    LET p == s.soilData.depthIntervalPreset
    IN  IF p # None /\ p # Some(PRESET_CUSTOM) THEN p[1]
        ELSE IF s.project = None \/ s.project[1].soilSettings = None THEN PRESET_NONE
        ELSE OrStr(s.project[1].soilSettings[1].depthIntervalPreset, PRESET_NONE)

get_effective_preset(s) ==
    LET project == s.project
    IN  IF project # None
        THEN LET soilSettings == project[1].soilSettings
             IN  IF soilSettings = None THEN PRESET_NONE
                 ELSE OrStr(soilSettings[1].depthIntervalPreset, PRESET_NONE)
        ELSE LET p == s.soilData.depthIntervalPreset
             IN  IF p = Some(PRESET_CUSTOM) THEN PRESET_NONE
                 ELSE OrStr(p, PRESET_NONE)

\* `s` is optional: None when the caller passes no site
get_preset_intervals(p, s) ==
    IF p = PRESET_NRCS THEN Return(NRCS_DEPTH_INTERVALS)
    ELSE IF p = PRESET_BLM THEN Return(BLM_DEPTH_INTERVALS)
    ELSE IF p = PRESET_CUSTOM /\ s # None
    THEN LET project == s[1].project
         IN  IF project = None
             THEN Raise("AttributeError")      \* None.get("soilSettings")
             ELSE LET soilSettings == project[1].soilSettings
                  IN  IF soilSettings = None THEN Return(<<>>)
                      ELSE IF soilSettings[1].depthIntervals = None
                           THEN Return(<<>>)
                           ELSE Return(soilSettings[1].depthIntervals[1])
    ELSE Return(<<>>)

\* the sort key of get_visible_intervals: depth_key(x[0])[0] or 0
SortKey(x) == OrZero(depth_key(x[1])[1])

\* InsertSorted placing an element before the elements of equal key
RECURSIVE InsertSortedUnstable(_, _)
InsertSortedUnstable(sorted, x) ==
    IF sorted = <<>> THEN <<x>>
    ELSE IF SortKey(x) <= SortKey(Head(sorted))
         THEN <<x>> \o sorted
         ELSE <<Head(sorted)>> \o InsertSortedUnstable(Tail(sorted), x)

\* list.sort(key=...) on a short list is a binary insertion sort: each element
\* is placed after every element already placed whose key is not greater
RECURSIVE InsertSorted(_, _)
InsertSorted(sorted, x) ==
    IF sorted = <<>> THEN <<x>>
    ELSE IF SortKey(x) < SortKey(Head(sorted))
         THEN <<x>> \o sorted
         ELSE <<Head(sorted)>> \o InsertSorted(Tail(sorted), x)

RECURSIVE ListSort(_)
ListSort(seq) ==
    IF seq = <<>> THEN <<>>
    ELSE InsertSorted(ListSort(SubSeq(seq, 1, Len(seq) - 1)), seq[Len(seq)])

Tagged(intervals, tag) == [i \in 1..Len(intervals) |-> <<intervals[i], tag>>]

get_visible_intervals(s) ==
    LET effective_preset == get_effective_preset(s)
        preset_intervals == get_preset_intervals(effective_preset, Some(s))
        site_intervals == IF s.soilData.depthIntervals = None THEN <<>>
                          ELSE s.soilData.depthIntervals[1]
    IN  IF preset_intervals.kind = "raise" THEN preset_intervals
        ELSE Return(ListSort(Tagged(preset_intervals.val, effective_preset)
                             \o Tagged(site_intervals, PRESET_CUSTOM)))

----------------------------------------------------------------------------
(* fetch_data.py: the Munsell to CIELAB lookup table *)

_HUE_NAMES == <<"R", "YR", "Y", "GY", "G", "BG", "B", "PB", "P", "RP">>

\* round(num / den) for den > 0: Python rounds halves to the even neighbour
RoundHalfEven(num, den) ==
    LET q == num \div den
        r == num % den
    IN  IF 2 * r < den THEN q
        ELSE IF 2 * r > den THEN q + 1
        ELSE IF q % 2 = 0 THEN q ELSE q + 1

\* f"{x:g}" for x = step2 / 2
FormatG(step2) ==
    IF step2 % 2 = 0 THEN IntStr(step2 \div 2)
    ELSE IntStr(step2 \div 2) \o ".5"

\* The rows of LandPKS_munsell_rgb_lab.csv: every hue string at value 1 and
\* chromas 1 and 2, and the neutral "N" at values 0 and 1; the three channels
\* of a row tell the rows apart.
CsvRows ==
    { [hue |-> FormatG(5 * st) \o _HUE_NAMES[f], value |-> 1, chroma |-> c,
       cielab_l |-> 10 + c, cielab_a |-> f, cielab_b |-> st] :
        f \in 1..10, st \in 1..4, c \in 1..2 }
    \cup { [hue |-> "N", value |-> v, chroma |-> 0,
            cielab_l |-> 50 + 10 * v, cielab_a |-> 0, cielab_b |-> 0] : v \in 0..1 }

\* the file is missing, holds only its header line, or holds the rows
CsvFiles == {None, Some({}), Some(CsvRows)}

\* csv.DictReader rows -> {(hue, int(value), int(chroma)): (L, A, B)}
ParseCsv(rows) ==
    [k \in {<<r.hue, r.value, r.chroma>> : r \in rows} |->
        LET r == CHOOSE r \in rows : <<r.hue, r.value, r.chroma>> = k
        IN  <<r.cielab_l, r.cielab_a, r.cielab_b>>]

\* ParseCsv tabulated over the file contents of the model
ParsedCsv == [rows \in {f[1] : f \in CsvFiles \ {None}} |-> ParseCsv(rows)]

\* The dict built by lines 56-70: the parsed rows, or {} on FileNotFoundError.
\* A dict object is [id, map]: id tells two equal dicts apart (Python identity).
BuildTable(n) ==
    [id |-> n, map |-> IF csvFile = None THEN EmptyDict ELSE ParsedCsv[csvFile[1]]]

\* the loader testing the global for truth (`if _munsell_lab_table:`) instead
\* of `is not None`: an empty table is loaded again
load_munsell_lab_table_truthy ==
    IF munsell_lab_table # None /\ DOMAIN munsell_lab_table[1].map # {}
    THEN [table |-> munsell_lab_table[1], opens |-> opens]
    ELSE [table |-> BuildTable(opens + 1), opens |-> opens + 1]

\* _load_munsell_lab_table() run without interruption: the table it returns
\* and the number of open() calls afterwards
load_munsell_lab_table ==
    IF munsell_lab_table # None
    THEN [table |-> munsell_lab_table[1], opens |-> opens]
    ELSE [table |-> BuildTable(opens + 1), opens |-> opens + 1]

\* dict.get(key)
TableGet(t, k) == IF k \in DOMAIN t.map THEN Some(t.map[k]) ELSE None

\* HueString without the step back to the previous family: a substep of 0
\* becomes the last step of the family the hue falls in
HueStringNoRollback(color_hue) ==
    LET hue == IF color_hue = 160 THEN 0 ELSE color_hue
        hue_index == hue \div 16
        substep0 == RoundHalfEven(hue % 16, 4)
        substep == IF substep0 = 0 THEN 4 ELSE substep0
    IN  IF hue_index \in 0..9
        THEN Return(FormatG(substep * 5) \o _HUE_NAMES[hue_index + 1])
        ELSE IF hue_index \in (-10)..(-1)
        THEN Return(FormatG(substep * 5) \o _HUE_NAMES[hue_index + 11])
        ELSE Raise("IndexError")

\* Lines 94-106.  A hue is counted in units of 0.625 (16 to a hue family, 160
\* for hue 100), so hue // 10 is h \div 16 and (hue % 10) / 2.5 is (h % 16) / 4.
\* The outcome is the hue string, or IndexError from _HUE_NAMES[hue_index].
HueString(color_hue) ==
    LET hue == IF color_hue = 160 THEN 0 ELSE color_hue
        hue_index0 == hue \div 16
        substep0 == RoundHalfEven(hue % 16, 4)
        hue_index == IF substep0 = 0 THEN (hue_index0 + 9) % 10 ELSE hue_index0
        substep == IF substep0 = 0 THEN 4 ELSE substep0
    IN  IF hue_index \in 0..9
        THEN Return(FormatG(substep * 5) \o _HUE_NAMES[hue_index + 1])
        ELSE IF hue_index \in (-10)..(-1)
        THEN Return(FormatG(substep * 5) \o _HUE_NAMES[hue_index + 11])
        ELSE Raise("IndexError")

\* MunsellLookup without the neutral branch of lines 89-91: the hue is decoded
\* whatever the chroma
MunsellLookupNoNeutral(t, c) ==
    IF DOMAIN t.map = {} THEN Return(None)
    ELSE LET chroma == RoundHalfEven(c[3], 2)
             value == RoundHalfEven(c[2], 2)
             hue_str == HueString(c[1])
         IN  IF hue_str.kind = "raise" THEN hue_str
             ELSE Return(TableGet(t, <<hue_str.val, value, chroma>>))

\* Lines 82-108 on the table `t`.  c = <<hue, value, chroma>>; value and chroma
\* are counted in halves, so round(value) is RoundHalfEven(v, 2).
MunsellLookup(t, c) ==
    IF DOMAIN t.map = {} THEN Return(None)      \* `if not table`
    ELSE LET chroma == RoundHalfEven(c[3], 2)
             value == RoundHalfEven(c[2], 2)
         IN  IF chroma = 0 THEN Return(TableGet(t, <<"N", value, 0>>))
             ELSE LET hue_str == HueString(c[1])
                  IN  IF hue_str.kind = "raise" THEN hue_str
                      ELSE Return(TableGet(t, <<hue_str.val, value, chroma>>))


----------------------------------------------------------------------------
(* fetch_data.py: the soil_id cache and fetch_soil_id *)

\* A site id is a string or an integer: [type |-> "str", v |-> "s1"] or
\* [type |-> "int", v |-> 7].
Str(id) == IF id.type = "str" THEN id.v ELSE IntStr(id.v)

\* truthiness of site.get("id")
TruthyId(id) ==
    /\ id # None
    /\ id[1].type = "int" => id[1].v # 0
    /\ id[1].type = "str" => id[1].v # ""

\* CacheHit without the test of _USE_SOIL_ID_CACHE
CacheHitIgnoringFlag(s) ==
    /\ TruthyId(s.id)
    /\ Str(s.id[1]) \in DOMAIN soil_id_cache

\* line 281: the cache answers for this site
CacheHit(s) ==
    /\ USE_SOIL_ID_CACHE
    /\ TruthyId(s.id)
    /\ Str(s.id[1]) \in DOMAIN soil_id_cache

\* HasColor testing the channels for truth: a channel of 0 counts as missing
HasColorTruthy(m) ==
    TruthyNum(m.colorHue) /\ TruthyNum(m.colorValue) /\ TruthyNum(m.colorChroma)

\* lines 327-331: all three colour channels are not None
HasColor(m) ==
    m.colorHue # None /\ m.colorValue # None /\ m.colorChroma # None

\* lines 332-336: the converter's outcome for a measurement, on table t
MeasurementLab(t, m) ==
    MunsellLookup(t, <<m.colorHue[1], m.colorValue[1], m.colorChroma[1]>>)

\* lines 310-338: the entry built for a retained measurement
DepthEntry(t, m) ==
    LET di == m.depthInterval
        lab == IF HasColor(m) THEN MeasurementLab(t, m).val ELSE None
    IN  [depthInterval |-> [start |-> di.start, end |-> di.end]]
        @@ (IF TruthyStr(m.texture) THEN [texture |-> m.texture[1]] ELSE EmptyDict)
        @@ (IF TruthyStr(m.rockFragmentVolume)
            THEN [rockFragmentVolume |-> m.rockFragmentVolume[1]] ELSE EmptyDict)
        @@ (IF lab # None
            THEN [colorLAB |-> [L |-> lab[1][1], A |-> lab[1][2], B |-> lab[1][3]]]
            ELSE EmptyDict)

\* Retained without the visibility filter
RetainedAll(s) == s.soilData.depthDependentData

\* lines 303-307: the measurements that pass the visibility filter, in order
Retained(s) ==
    LET visible == get_visible_intervals(s).val
        visible_keys == {depth_key(visible[i][1]) : i \in 1..Len(visible)}
        Keep(m) == depth_key(m) \in visible_keys
    IN  SelectSeq(s.soilData.depthDependentData, Keep)

\* lines 291-340 with the table t that munsell_to_lab loads: the payload, or
\* the exception that leaves the loop
BuildData(t, s) ==
    LET soil_data == s.soilData
        visible == get_visible_intervals(s)
        kept == Retained(s)
        bad == {i \in 1..Len(kept) :
                    HasColor(kept[i]) /\ MeasurementLab(t, kept[i]).kind = "raise"}
    IN  IF visible.kind = "raise" THEN visible
        ELSE IF bad # {}
        THEN MeasurementLab(t, kept[CHOOSE i \in bad : \A j \in bad : i <= j])
        ELSE Return([slope |-> soil_data.slopeSteepnessDegree,
                     surfaceCracks |-> IF soil_data.surfaceCracksSelect = None
                                       THEN "NO_CRACKING"
                                       ELSE soil_data.surfaceCracksSelect[1],
                     depthDependentData |->
                         [i \in 1..Len(kept) |-> DepthEntry(t, kept[i])]])

\* munsell_to_lab is reached: some retained measurement has all three channels
CallsConverter(s) ==
    /\ get_visible_intervals(s).kind = "return"
    /\ \E i \in 1..Len(Retained(s)) : HasColor(Retained(s)[i])

\* line 287
MissingCoordinates(s) == ~TruthyNum(s.latitude) \/ ~TruthyNum(s.longitude)

----------------------------------------------------------------------------
(* Bounds and inputs *)

MaxProjectIntervals == 1   \* longest project-level custom interval list
MaxSiteIntervals == 2      \* longest site-level custom interval list
MaxMeasurements == 2       \* longest depthDependentData list
MaxQueries == 2            \* soil-match queries executed in one run
MaxValue2 == 4             \* largest colour value argument, in halves
MaxChroma2 == 3            \* largest colour chroma argument, in halves
HueOver == 8               \* how far hue arguments leave [0, 100], in units of 0.625
NumThreads == 2            \* threads calling the table loader
MaxCalls == 2              \* loader calls per thread
MaxCacheCalls == 3         \* cache control calls made in one run

Threads == 1..NumThreads

SeqsUpTo(S, n) == UNION {[1..k -> S] : k \in 0..n}

Interval(label, start, end) ==
    [label |-> label, depthInterval |-> [start |-> start, end |-> end]]

\* custom intervals: one equal in depth to the first NRCS interval, one with a
\* missing start (sorted as 0), one deeper
CustomPool ==
    { Interval("top", Some(0), Some(5)),
      Interval("open", None, Some(7)),
      Interval("deep", Some(15), Some(20)) }

Presets == {PRESET_NRCS, PRESET_BLM, PRESET_CUSTOM, PRESET_NONE}

Projects ==
    {None, Some([soilSettings |-> None])}
    \cup {Some([soilSettings |-> Some([depthIntervalPreset |-> p, depthIntervals |-> l])]) :
            p \in Opt(Presets), l \in Opt(SeqsUpTo(CustomPool, MaxProjectIntervals))}

MakeSite(id, lat, lon, project, sitePreset, siteIntervals, measurements) ==
    [id |-> id, latitude |-> lat, longitude |-> lon, project |-> project,
     soilData |-> [depthIntervalPreset |-> sitePreset,
                   depthIntervals |-> siteIntervals,
                   depthDependentData |-> measurements,
                   slopeSteepnessDegree |-> Some(3),
                   surfaceCracksSelect |-> None]]

StrId(v) == Some([type |-> "str", v |-> v])

ResolverSites ==
    { MakeSite(StrId("s1"), Some(45), Some(45), pr, p, l, <<>>) :
        pr \in Projects, p \in Opt(Presets),
        l \in Opt(SeqsUpTo(CustomPool, MaxSiteIntervals)) }

\* preset arguments of get_preset_intervals: the four presets and one other value
PresetArgs == Presets \cup {"OTHER"}

Colors == ((-HueOver)..(160 + HueOver)) \X ((-1)..MaxValue2) \X ((-1)..MaxChroma2)

Measurement(start, end, texture, rock, hue, value, chroma) ==
    [depthInterval |-> [start |-> start, end |-> end], texture |-> texture,
     rockFragmentVolume |-> rock, colorHue |-> hue, colorValue |-> value,
     colorChroma |-> chroma]

\* measurements: a colour the table holds (hue 5, value 1, chroma 1); the
\* colour 0/0/0 at the same depth, without texture; one with colorValue
\* missing; one whose colour the table does not hold (value 2)
MeasurementPool ==
    { Measurement(Some(0), Some(5), Some("CLAY"), Some("VOLUME_1_15"),
                  Some(8), Some(2), Some(2)),
      Measurement(Some(0), Some(5), None, None, Some(0), Some(0), Some(0)),
      Measurement(Some(1), Some(10), Some("SAND"), None, Some(40), None, Some(2)),
      Measurement(None, Some(7), None, Some("VOLUME_0_1"), Some(4), Some(4), Some(2)) }

Coordinates == Opt({0, 45})

\* the resolver configurations of the assembler's sites
FetchShapes ==
    { <<None, Some(PRESET_NRCS), Some(<<Interval("open", None, Some(7))>>)>>,
      <<Some([soilSettings |-> Some([depthIntervalPreset |-> Some(PRESET_BLM),
                                      depthIntervals |-> None])]),
        Some(PRESET_NRCS), Some(<<Interval("top", Some(0), Some(5))>>)>>,
      <<Some([soilSettings |-> Some([depthIntervalPreset |-> Some(PRESET_CUSTOM),
                                      depthIntervals |->
                                          Some(<<Interval("one", Some(1), Some(10))>>)])]),
        None, None>>,
      <<None, Some(PRESET_CUSTOM), None>> }

FetchSites ==
    { MakeSite(StrId("s1"), lat, lon, sh[1], sh[2], sh[3], ms) :
        lat \in Coordinates, lon \in Coordinates, sh \in FetchShapes,
        ms \in SeqsUpTo(MeasurementPool, MaxMeasurements) }

IntId(v) == Some([type |-> "int", v |-> v])

\* site_id arguments of cache_soil_id: a key that is not a string, and a string
CacheIds == <<IntId(7), StrId("s2")>>

\* soil_id_data arguments of cache_soil_id
CacheData == {[soilId |-> "cachedA"], [soilId |-> "cachedB"]}

\* the sites fetched while the cache is driven: the id as the string the
\* integer key is written as, or the other id; with and without a latitude
CacheSites ==
    { MakeSite(id, lat, Some(45), None, Some(PRESET_NRCS), None, <<>>) :
        id \in {StrId("7"), StrId("s2")}, lat \in {None, Some(45)} }

\* entries of the history of cache control calls
SetCall(enabled) ==
    [op |-> "set_soil_id_cache_enabled", enabled |-> enabled, site_id |-> None,
     soil_id_data |-> None]

CacheCall(site_id, soil_id_data) ==
    [op |-> "cache_soil_id", enabled |-> FALSE, site_id |-> site_id,
     soil_id_data |-> Some(soil_id_data)]

ClearCall ==
    [op |-> "clear_soil_id_cache", enabled |-> FALSE, site_id |-> None,
     soil_id_data |-> None]

----------------------------------------------------------------------------
(* Initial states *)

\* the module globals after import, and idle threads
Globals ==
    /\ munsell_lab_table = None
    /\ opens = 0
    /\ soil_id_cache = EmptyDict
    /\ USE_SOIL_ID_CACHE = TRUE
    /\ queries = <<>>
    /\ pc = [t \in Threads |-> "idle"]
    /\ local = [t \in Threads |-> None]
    /\ tret = [t \in Threads |-> None]
    /\ calls = [t \in Threads |-> 0]
    /\ log = <<>>

NoCall ==
    /\ op = "none"
    /\ ret = Return(None)

DefaultSite == MakeSite(StrId("s1"), Some(45), Some(45), None, None, None, <<>>)

InitResolver ==
    /\ Globals /\ NoCall
    /\ site \in ResolverSites
    /\ preset = PRESET_NONE
    /\ siteGiven = FALSE
    /\ color = <<0, 0, 0>>
    /\ csvFile = None

InitMunsell ==
    /\ Globals /\ NoCall
    /\ site = DefaultSite
    /\ preset = PRESET_NONE
    /\ siteGiven = FALSE
    /\ color \in Colors
    /\ csvFile \in CsvFiles

InitLoader ==
    /\ Globals /\ NoCall
    /\ site = DefaultSite
    /\ preset = PRESET_NONE
    /\ siteGiven = FALSE
    /\ color = <<0, 0, 0>>
    /\ csvFile \in CsvFiles

\* the assembler: the cache is empty or already holds an entry for the site
Init ==
    /\ NoCall
    /\ munsell_lab_table = None
    /\ opens = 0
    /\ soil_id_cache \in {EmptyDict, [s1 |-> "cached"]}
    /\ USE_SOIL_ID_CACHE \in BOOLEAN
    /\ log = (IF soil_id_cache = EmptyDict THEN <<>>
              ELSE <<CacheCall(StrId("s1"), "cached")>>)
             \o (IF USE_SOIL_ID_CACHE THEN <<>> ELSE <<SetCall(FALSE)>>)
    /\ queries = <<>>
    /\ pc = [t \in Threads |-> "idle"]
    /\ local = [t \in Threads |-> None]
    /\ tret = [t \in Threads |-> None]
    /\ calls = [t \in Threads |-> 0]
    /\ site \in FetchSites
    /\ preset = PRESET_NONE
    /\ siteGiven = FALSE
    /\ color = <<0, 0, 0>>
    /\ csvFile \in {None, Some(CsvRows)}

\* the module as imported, one site to fetch, no cache control call made yet
InitCache ==
    /\ Globals
    /\ NoCall
    /\ site \in CacheSites
    /\ preset = PRESET_NONE
    /\ siteGiven = FALSE
    /\ color = <<0, 0, 0>>
    /\ csvFile = None

----------------------------------------------------------------------------
(* Actions: the depth interval resolver *)

resolverVars == <<csvFile, munsell_lab_table, opens, soil_id_cache,
                  USE_SOIL_ID_CACHE, queries, pc, local, tret, calls, color, log>>

CallGetEffectivePreset ==
    /\ op' = "get_effective_preset"
    /\ ret' = Return(get_effective_preset(site))
    /\ UNCHANGED <<site, preset, siteGiven, resolverVars>>

CallGetPresetIntervals ==
    \E p \in PresetArgs, given \in BOOLEAN :
        /\ op' = "get_preset_intervals"
        /\ preset' = p
        /\ siteGiven' = given
        /\ ret' = get_preset_intervals(p, IF given THEN Some(site) ELSE None)
        /\ UNCHANGED <<site, resolverVars>>

CallGetVisibleIntervals ==
    /\ op' = "get_visible_intervals"
    /\ ret' = get_visible_intervals(site)
    /\ UNCHANGED <<site, preset, siteGiven, resolverVars>>

NextResolver ==
    \/ CallGetEffectivePreset
    \/ CallGetPresetIntervals
    \/ CallGetVisibleIntervals

SpecResolver == InitResolver /\ [][NextResolver]_vars

----------------------------------------------------------------------------
(* Actions: the converter in one thread *)

\* the calling thread
Main == CHOOSE t \in Threads : \A u \in Threads : t <= u

munsellVars == <<site, preset, siteGiven, color, csvFile, soil_id_cache,
                 USE_SOIL_ID_CACHE, queries, pc, local, tret, log>>

\* _load_munsell_lab_table()
LoadTable ==
    LET loaded == load_munsell_lab_table
    IN  /\ calls[Main] < MaxCalls
        /\ calls' = [calls EXCEPT ![Main] = @ + 1]
        /\ op' = "load"
        /\ ret' = Return(loaded.table)
        /\ munsell_lab_table' = Some(loaded.table)
        /\ opens' = loaded.opens
        /\ UNCHANGED munsellVars

\* munsell_to_lab(*color)
MunsellToLab ==
    LET loaded == load_munsell_lab_table
    IN  /\ calls[Main] < MaxCalls
        /\ calls' = [calls EXCEPT ![Main] = @ + 1]
        /\ op' = "munsell_to_lab"
        /\ ret' = MunsellLookup(loaded.table, color)
        /\ munsell_lab_table' = Some(loaded.table)
        /\ opens' = loaded.opens
        /\ UNCHANGED munsellVars

NextMunsell ==
    \/ LoadTable
    \/ MunsellToLab

SpecMunsell == InitMunsell /\ [][NextMunsell]_vars

----------------------------------------------------------------------------
(* Actions: _load_munsell_lab_table() called from several threads, one step *)
(* per access to the shared global or to the file                           *)

loaderVars == <<site, preset, siteGiven, color, op, ret, csvFile, soil_id_cache,
                USE_SOIL_ID_CACHE, queries, log>>

\* line 46: the test of the global
TCheck(t) ==
    /\ pc[t] = "idle"
    /\ calls[t] < MaxCalls
    /\ calls' = [calls EXCEPT ![t] = @ + 1]
    /\ pc' = [pc EXCEPT ![t] = IF munsell_lab_table # None THEN "cached" ELSE "open"]
    /\ UNCHANGED <<munsell_lab_table, opens, local, tret, loaderVars>>

\* line 47: the global is read again and returned
TReturnCached(t) ==
    /\ pc[t] = "cached"
    /\ tret' = [tret EXCEPT ![t] = munsell_lab_table]
    /\ pc' = [pc EXCEPT ![t] = "idle"]
    /\ UNCHANGED <<munsell_lab_table, opens, local, calls, loaderVars>>

\* lines 56-70: the file is opened and parsed into a new local dict
TOpen(t) ==
    /\ pc[t] = "open"
    /\ opens' = opens + 1
    /\ local' = [local EXCEPT ![t] = Some(BuildTable(opens + 1))]
    /\ pc' = [pc EXCEPT ![t] = "assign"]
    /\ UNCHANGED <<munsell_lab_table, tret, calls, loaderVars>>

\* line 72
TAssign(t) ==
    /\ pc[t] = "assign"
    /\ munsell_lab_table' = local[t]
    /\ pc' = [pc EXCEPT ![t] = "return"]
    /\ UNCHANGED <<opens, local, tret, calls, loaderVars>>

\* line 73
TReturn(t) ==
    /\ pc[t] = "return"
    /\ tret' = [tret EXCEPT ![t] = munsell_lab_table]
    /\ pc' = [pc EXCEPT ![t] = "idle"]
    /\ UNCHANGED <<munsell_lab_table, opens, local, calls, loaderVars>>

NextLoader ==
    \E t \in Threads :
        \/ TCheck(t)
        \/ TReturnCached(t)
        \/ TOpen(t)
        \/ TAssign(t)
        \/ TReturn(t)

SpecLoader == InitLoader /\ [][NextLoader]_vars

----------------------------------------------------------------------------
(* Actions: the soil_id cache and fetch_soil_id *)

ErrorResult == [error |-> "Site missing latitude or longitude"]

\* res.data of a successful soil-match query
SoilMatches == [soilId |-> "soilMatches"]

fetchVars == <<site, preset, siteGiven, color, csvFile, pc, local, tret, calls>>

\* what the cache control functions leave alone
cacheVars == <<site, preset, siteGiven, color, csvFile, munsell_lab_table, opens,
               queries, pc, local, tret, calls>>

\* set_soil_id_cache_enabled(enabled)
SetSoilIdCacheEnabled ==
    \E enabled \in BOOLEAN :
        /\ Len(log) < MaxCacheCalls
        /\ op' = "set_soil_id_cache_enabled"
        /\ ret' = Return(None)
        /\ USE_SOIL_ID_CACHE' = enabled
        /\ log' = Append(log, SetCall(enabled))
        /\ UNCHANGED <<soil_id_cache, cacheVars>>

\* cache_soil_id(site_id, soil_id_data): the entry is keyed by str(site_id)
CacheSoilId ==
    \E k \in DOMAIN CacheIds, soil_id_data \in CacheData :
      LET site_id == CacheIds[k] IN
        /\ Len(log) < MaxCacheCalls
        /\ op' = "cache_soil_id"
        /\ ret' = Return(None)
        /\ soil_id_cache' = IF USE_SOIL_ID_CACHE
                            THEN (Str(site_id[1]) :> soil_id_data) @@ soil_id_cache
                            ELSE soil_id_cache
        /\ log' = Append(log, CacheCall(site_id, soil_id_data))
        /\ UNCHANGED <<USE_SOIL_ID_CACHE, cacheVars>>

\* clear_soil_id_cache()
ClearSoilIdCache ==
    /\ Len(log) < MaxCacheCalls
    /\ op' = "clear_soil_id_cache"
    /\ ret' = Return(None)
    /\ soil_id_cache' = EmptyDict
    /\ log' = Append(log, ClearCall)
    /\ UNCHANGED <<USE_SOIL_ID_CACHE, cacheVars>>

\* fetch_soil_id(site, request); the query either succeeds or reports errors
FetchSoilId ==
    /\ Len(queries) < MaxQueries
    /\ op' = "fetch_soil_id"
    /\ IF CacheHit(site)
       THEN /\ ret' = Return(soil_id_cache[Str(site.id[1])])
            /\ UNCHANGED <<munsell_lab_table, opens, queries>>
       ELSE IF MissingCoordinates(site)
       THEN /\ ret' = Return(ErrorResult)
            /\ UNCHANGED <<munsell_lab_table, opens, queries>>
       ELSE LET loaded == load_munsell_lab_table
                data == BuildData(loaded.table, site)
            IN  /\ IF CallsConverter(site)
                   THEN /\ munsell_lab_table' = Some(loaded.table)
                        /\ opens' = loaded.opens
                   ELSE UNCHANGED <<munsell_lab_table, opens>>
                /\ IF data.kind = "raise"
                   THEN /\ ret' = data
                        /\ UNCHANGED queries
                   ELSE /\ queries' = Append(queries,
                                             [latitude |-> site.latitude[1],
                                              longitude |-> site.longitude[1],
                                              data |-> data.val])
                        /\ \E errors \in BOOLEAN :
                              ret' = IF errors THEN Raise("RuntimeError")
                                     ELSE Return(SoilMatches)
    /\ UNCHANGED <<soil_id_cache, USE_SOIL_ID_CACHE, fetchVars, log>>

Next ==
    \/ FetchSoilId

Spec == Init /\ [][Next]_vars

NextCache ==
    \/ SetSoilIdCacheEnabled
    \/ CacheSoilId
    \/ ClearSoilIdCache
    \/ FetchSoilId

SpecCache == InitCache /\ [][NextCache]_vars

----------------------------------------------------------------------------
(* Claims about the depth interval resolver, checked under SpecResolver *)

\* the preset of the site's project, None when the project has no
\* soilSettings or they hold no preset
ProjectPreset(s) ==
    IF s.project[1].soilSettings = None THEN None
    ELSE s.project[1].soilSettings[1].depthIntervalPreset

\* C1: get_effective_preset follows the precedence rule.  With a project the
\* result is the project's preset (NONE when it is missing), whatever the
\* site's own preset; without a project it is the site's preset, CUSTOM and a
\* missing preset both giving NONE.
C1_PresetPrecedence ==
    op = "get_effective_preset" =>
        /\ ret.kind = "return"
        /\ site.project # None =>
              ret.val = IF ProjectPreset(site) = None THEN "NONE"
                        ELSE ProjectPreset(site)[1]
        /\ site.project = None =>
              ret.val = IF site.soilData.depthIntervalPreset
                              \in {None, Some("CUSTOM")}
                        THEN "NONE"
                        ELSE site.soilData.depthIntervalPreset[1]

\* C1 witness: a project preset of CUSTOM wins over a site preset of NRCS
C1_Witness ==
    /\ op = "get_effective_preset"
    /\ site.project # None
    /\ ProjectPreset(site) = Some("CUSTOM")
    /\ site.soilData.depthIntervalPreset = Some("NRCS")
    /\ ret = Return("CUSTOM")

\* C2: get_preset_intervals never raises, whatever the preset and the site
\* argument: for CUSTOM it returns the project's custom interval list, and an
\* empty list when no site or no project is supplied; for NONE or an
\* unrecognized preset it returns an empty list.
C2_NeverRaises ==
    op = "get_preset_intervals" =>
        /\ ret.kind = "return"
        /\ preset \in {"NONE", "OTHER"} => ret.val = <<>>
        /\ preset = "CUSTOM" =>
              ret.val = IF ~siteGiven \/ site.project = None
                           \/ site.project[1].soilSettings = None
                           \/ site.project[1].soilSettings[1].depthIntervals = None
                        THEN <<>>
                        ELSE site.project[1].soilSettings[1].depthIntervals[1]

\* out is a stable sort of in by SortKey: the keys ascend, and the elements of
\* each key are those of in, in the order of in
IsStableSort(out, in) ==
    /\ Len(out) = Len(in)
    /\ \A i, j \in 1..Len(out) : i < j => SortKey(out[i]) <= SortKey(out[j])
    /\ \A k \in {SortKey(in[i]) : i \in 1..Len(in)} :
          LET HasKey(x) == SortKey(x) = k
          IN  SelectSeq(out, HasKey) = SelectSeq(in, HasKey)

\* the intervals of preset p, as the reference tables and the project give them
PresetList(p, s) ==
    IF p = "NRCS" THEN NRCS_DEPTH_INTERVALS
    ELSE IF p = "BLM" THEN BLM_DEPTH_INTERVALS
    ELSE IF p = "CUSTOM" /\ s.project[1].soilSettings[1].depthIntervals # None
    THEN s.project[1].soilSettings[1].depthIntervals[1]
    ELSE <<>>

----------------------------------------------------------------------------
(* Claims about the converter in one thread, checked under SpecMunsell *)

\* the last call was munsell_to_lab with a chroma that does not round to 0,
\* on a table that holds rows
ChromaticLookup ==
    /\ op = "munsell_to_lab"
    /\ DOMAIN munsell_lab_table[1].map # {}
    /\ RoundHalfEven(color[3], 2) # 0

\* what the table holds for the hue string h and the rounded value and chroma
\* of the call
EntryUnder(h) ==
    TableGet(munsell_lab_table[1],
             <<h, RoundHalfEven(color[2], 2), RoundHalfEven(color[3], 2)>>)

\* C4 as stated: hue100 = 5 (8 units) is looked up under "2.5R" and
\* hue100 = 0 under "10RP".
C4_Original ==
    ChromaticLookup =>
        /\ color[1] = 8 => ret = Return(EntryUnder("2.5R"))
        /\ color[1] = 0 => ret = Return(EntryUnder("10RP"))

\* C4 amended: hue100 = 5 is looked up under "5R" (family R, step 5),
\* hue100 = 2.5 (4 units) under "2.5R", and hue100 = 0 under "10RP" (the
\* step back from family index 0 to RP, step 10).
C4_HueDecoding ==
    ChromaticLookup =>
        /\ color[1] = 8 => ret = Return(EntryUnder("5R"))
        /\ color[1] = 4 => ret = Return(EntryUnder("2.5R"))
        /\ color[1] = 0 => ret = Return(EntryUnder("10RP"))

\* C4 witness: hue100 = 0 with value 1 and chroma 1 returns the row of "10RP"
\* (family 10, step 4)
C4_Witness ==
    /\ ChromaticLookup
    /\ color = <<0, 2, 2>>
    /\ ret = Return(Some(<<11, 10, 4>>))

\* C5: munsell_to_lab never raises, whatever the numbers it is given and
\* whether or not the hue lies in [0, 100]: it returns a row of the table or
\* None, and None for every input when the table is empty.
C5_NeverRaises ==
    op = "munsell_to_lab" =>
        /\ ret.kind = "return"
        /\ DOMAIN munsell_lab_table[1].map = {} => ret.val = None

\* C7: in one thread the loader is idempotent.  Once a call has been made the
\* file has been opened exactly once, however many calls follow, the global
\* is the table built by that one load (the rows of the file, or the empty
\* table when the file is missing), and the loader returns that same object.
C7_LoadOnce ==
    calls[Main] >= 1 =>
        /\ opens = 1
        /\ munsell_lab_table =
              Some([id |-> 1,
                    map |-> IF csvFile = None THEN EmptyDict
                            ELSE ParseCsv(csvFile[1])])
        /\ op = "load" => ret = Return(munsell_lab_table[1])

\* C7 witness: the file is missing and the loader has returned the empty
\* table to a second call without opening anything again
C7_Witness ==
    /\ calls[Main] = 2
    /\ op = "load"
    /\ csvFile = None
    /\ opens = 1
    /\ ret = Return([id |-> 1, map |-> EmptyDict])

\* C11: when the chroma rounds to 0 the result of munsell_to_lab does not
\* depend on the hue: whatever the hue (0, 100 and hues outside [0, 100]
\* included) it is what the table holds for ("N", round(value), 0), or None
\* when the table holds no such row; two calls that differ only in the hue
\* therefore return the same.
C11_NeutralIgnoresHue ==
    (op = "munsell_to_lab" /\ RoundHalfEven(color[3], 2) = 0) =>
        ret = Return(TableGet(munsell_lab_table[1],
                              <<"N", RoundHalfEven(color[2], 2), 0>>))

\* C11 witness: hue100 = 100 with value 1 and chroma 0 returns the row of
\* ("N", 1, 0)
C11_Witness ==
    /\ op = "munsell_to_lab"
    /\ color = <<160, 2, 0>>
    /\ ret = Return(Some(<<60, 0, 0>>))

----------------------------------------------------------------------------
(* Claim about the loader called from several threads, checked under SpecLoader *)

\* C6: first use by several threads is serialized: the file is opened and
\* parsed at most once, and every caller gets the same table object.
C6_LoadSerialized ==
    /\ opens <= 1
    /\ \A t1, t2 \in Threads :
          tret[t1] # None /\ tret[t2] # None => tret[t1] = tret[t2]

----------------------------------------------------------------------------
(* Claims about fetch_soil_id, checked under Spec *)

\* the (start, end) pairs of the intervals get_visible_intervals gives for s
VisibleKeys(s) ==
    LET visible == get_visible_intervals(s).val
    IN  {<<visible[i][1].depthInterval.start, visible[i][1].depthInterval.end>> :
            i \in 1..Len(visible)}

\* the input measurements whose (start, end) is a visible key, in input order
VisibleMeasurements(s) ==
    LET IsVisible(m) ==
            <<m.depthInterval.start, m.depthInterval.end>> \in VisibleKeys(s)
    IN  SelectSeq(s.soilData.depthDependentData, IsVisible)

\* C8: depthDependentData of the payload holds one entry for each input
\* measurement whose (start, end) is among the keys of the visible intervals
\* and none for the others, in the order of the input (no reordering, no
\* merging of measurements with equal keys).
C8_FilterOnly ==
    \A q \in 1..Len(queries) :
        LET dd == queries[q].data.depthDependentData
            kept == VisibleMeasurements(site)
        IN  /\ Len(dd) = Len(kept)
            /\ \A j \in 1..Len(dd) : dd[j].depthInterval = kept[j].depthInterval

\* C8 witness: of the measurements at 1-10 and at 0-5 of an NRCS site, only
\* the second reaches the payload
C8_Witness ==
    /\ Len(queries) >= 1
    /\ Len(site.soilData.depthDependentData) = 2
    /\ site.soilData.depthDependentData[1].depthInterval
          = [start |-> Some(1), end |-> Some(10)]
    /\ Len(queries[1].data.depthDependentData) = 1
    /\ queries[1].data.depthDependentData[1].depthInterval
          = [start |-> Some(0), end |-> Some(5)]

\* C9: an entry carries colorLAB exactly when the measurement's colorHue,
\* colorValue and colorChroma are all not None (0 is a value) and
\* munsell_to_lab returns a row, and then it is that row; otherwise it has no
\* colorLAB key.  Every retained measurement has its entry, with texture and
\* rockFragmentVolume exactly when they are truthy in the measurement.
C9_ColorAttached ==
    \A q \in 1..Len(queries) :
        LET dd == queries[q].data.depthDependentData
            kept == VisibleMeasurements(site)
        IN  /\ Len(dd) = Len(kept)
            /\ \A j \in 1..Len(dd) :
                  LET m == kept[j]
                      e == dd[j]
                      present == /\ m.colorHue # None
                                 /\ m.colorValue # None
                                 /\ m.colorChroma # None
                      lab == IF present
                             THEN MunsellLookup(munsell_lab_table[1],
                                      <<m.colorHue[1], m.colorValue[1],
                                        m.colorChroma[1]>>).val
                             ELSE None
                  IN  /\ DOMAIN e \subseteq {"depthInterval", "texture",
                                            "rockFragmentVolume", "colorLAB"}
                      /\ present => munsell_lab_table # None
                      /\ "colorLAB" \in DOMAIN e <=> lab # None
                      /\ lab # None =>
                            e.colorLAB = [L |-> lab[1][1], A |-> lab[1][2],
                                          B |-> lab[1][3]]
                      /\ "texture" \in DOMAIN e <=> TruthyStr(m.texture)
                      /\ TruthyStr(m.texture) => e.texture = m.texture[1]
                      /\ "rockFragmentVolume" \in DOMAIN e
                            <=> TruthyStr(m.rockFragmentVolume)
                      /\ TruthyStr(m.rockFragmentVolume) =>
                            e.rockFragmentVolume = m.rockFragmentVolume[1]

\* C9 witness: the colour 0/0/0 gets the row of ("N", 0, 0), and a colour the
\* table does not hold gets no colorLAB while its rockFragmentVolume is kept
C9_Witness ==
    /\ Len(queries) >= 1
    /\ Len(queries[1].data.depthDependentData) = 2
    /\ queries[1].data.depthDependentData[1]
          = [depthInterval |-> [start |-> Some(0), end |-> Some(5)],
             colorLAB |-> [L |-> 50, A |-> 0, B |-> 0]]
    /\ queries[1].data.depthDependentData[2]
          = [depthInterval |-> [start |-> None, end |-> Some(7)],
             rockFragmentVolume |-> "VOLUME_0_1"]

\* C10: without a cache hit, fetch_soil_id returns the error result, and
\* executes no soil-match query, exactly when the latitude or the longitude
\* is missing; coordinates that are numbers, 0 included, go on to the query.
C10_ErrorIffMissing ==
    [][(op' = "fetch_soil_id" /\ ~CacheHit(site)) =>
          ((ret'.kind = "return" /\ ret'.val = ErrorResult /\ queries' = queries)
              <=> (site.latitude = None \/ site.longitude = None))]_vars

----------------------------------------------------------------------------
(* Claims about the soil_id cache, checked under SpecCache *)

\* whether the cache was enabled just before the i-th cache control call: the
\* argument of the latest set_soil_id_cache_enabled before it, True when none
EnabledBefore(i) ==
    LET sets == {j \in 1..(i - 1) : log[j].op = "set_soil_id_cache_enabled"}
    IN  IF sets = {} THEN TRUE
        ELSE log[CHOOSE j \in sets : \A k \in sets : k <= j].enabled

\* the cache_soil_id calls for the id of s, compared as strings, made while the
\* cache was enabled and not followed by a clear_soil_id_cache
StoringCalls(s) ==
    {i \in 1..Len(log) :
        /\ log[i].op = "cache_soil_id"
        /\ Str(log[i].site_id[1]) = Str(s.id[1])
        /\ EnabledBefore(i)
        /\ \A j \in (i + 1)..Len(log) : log[j].op # "clear_soil_id_cache"}

LatestStored(s) ==
    log[CHOOSE i \in StoringCalls(s) : \A k \in StoringCalls(s) : k <= i].soil_id_data[1]

\* C12: after any sequence of cache control calls, fetch_soil_id(site) returns
\* a cached value, without executing a query and whatever the coordinates,
\* exactly when the cache is enabled at the fetch and some cache_soil_id call
\* for the site's id (as a string) was made while enabled since the last
\* clear; it returns what the latest such call stored. Otherwise it returns
\* the missing-coordinates error or executes the query. cache_soil_id while
\* disabled, set_soil_id_cache_enabled and fetch_soil_id leave the cache as
\* it is.
C12_CacheSemantics ==
    [][/\ op' = "fetch_soil_id" =>
            /\ IF EnabledBefore(Len(log) + 1) /\ StoringCalls(site) # {}
               THEN ret' = Return(LatestStored(site)) /\ queries' = queries
               ELSE \/ queries' # queries
                    \/ ret' = Return(ErrorResult)
            /\ soil_id_cache' = soil_id_cache
       /\ (op' = "cache_soil_id" /\ ~USE_SOIL_ID_CACHE) =>
            soil_id_cache' = soil_id_cache
       /\ op' = "set_soil_id_cache_enabled" => soil_id_cache' = soil_id_cache]_vars

\* C12 witness: after cache_soil_id(7, A) and cache_soil_id(7, B), the fetch of
\* the site with id "7" and no latitude returned B and executed no query
C12_Witness ==
    /\ op = "fetch_soil_id"
    /\ site.id = StrId("7")
    /\ site.latitude = None
    /\ Len(log) >= 2
    /\ \A i \in 1..2 : /\ log[i].op = "cache_soil_id"
                       /\ log[i].site_id[1].type = "int"
                       /\ log[i].site_id[1].v = 7
    /\ log[1].soil_id_data = Some([soilId |-> "cachedA"])
    /\ log[2].soil_id_data = Some([soilId |-> "cachedB"])
    /\ ret = Return([soilId |-> "cachedB"])
    /\ queries = <<>>

====
